---- MODULE Spec2Model ----
(***************************************************************************)
(* Model of the availability engine of eva_assistant:                      *)
(*   - the free-slot synthesizer CheckAvailabilityTool._find_free_slots    *)
(*     (tools/calendar.py), stepped statement by statement;                *)
(*   - the timezone layer convert_datetime_to_user_timezone /              *)
(*     convert_datetime_from_user_timezone (tools/calendar.py);            *)
(*   - the profile store of UserAuthManager (auth/user_auth.py);           *)
(*   - the email mapping store and find_user_id_for_email of               *)
(*     UserAuthManager;                                                    *)
(*   - CheckAvailabilityTool.run_with_context, stepped call by call;       *)
(*   - the message history of ConversationManager (memory/conversation.py);*)
(*   - the plan/act/reflect graph of EvaGraph (agent/graph.py);            *)
(*   - two concurrent writers of one profile file.                         *)
(* Each component has its own specification; the variables of the other    *)
(* components stay at their idle values.                                   *)
(* Times of the synthesizer are minutes on one wall clock (the function   *)
(* does no zone conversion: every datetime of one call carries the same    *)
(* display-zone offset, so datetime arithmetic is integer arithmetic).     *)
(***************************************************************************)
EXTENDS Integers, Sequences, FiniteSets, TLC

VARIABLES
    pc,                 \* position inside _find_free_slots
    start_dt,           \* parsed start_time (window start)
    end_dt,             \* parsed end_time (window end)
    duration_minutes,   \* requested slot length
    max_suggestions,    \* bound on the number of returned slots
    busy_times,         \* the busy list (argument, sorted in place)
    busy_idx,           \* index of the for loop over busy_times
    current_time,       \* the cursor
    free_slots,         \* the result list
    tz_pc,              \* position of the timezone round trip
    tz_input,           \* the UTC datetime string given to the layer
    tz_zone,            \* the user_timezone argument
    tz_local,           \* result of convert_datetime_to_user_timezone
    tz_utc,             \* result of convert_datetime_from_user_timezone
    profile_files,      \* user_id -> content of user_<id>_profile.json
    profile_ret,        \* last profile-store call and its return value
    mapping_files,      \* user_id -> content of user_<id>_email_mapping.json
    selection_files,    \* user_id -> selected_calendar_ids of the selection file
    user_token_files,   \* users whose user_<id>_calendar_token.json is non-empty
    email_token_files,  \* <<user, email>> whose per-email token file exists
    mail_ret,           \* last email-mapping call, its arguments and result
    ca_pc,              \* position inside CheckAvailabilityTool.run_with_context
    args,               \* CheckAvailabilityArgs and the context of the call
    api_calendars,      \* items of the Google calendarList of the account
    user_id,            \* result of find_user_id_for_email(args.email)
    availability,       \* result of get_user_availability_for_date
    self_calendar_ids,  \* the calendars to query
    all_calendars,      \* calendar_list.get('items') once it was fetched
    cal_idx,            \* index of the for loop over self_calendar_ids
    all_busy_times,     \* busy entries collected so far
    query_log,          \* history: outcome of each events().list query
    result,             \* the dict returned by run_with_context
    messages,           \* rows of the messages table, in rowid order
    db_clock,           \* CURRENT_TIMESTAMP of the database, in seconds
    conv_ret,           \* last get_conversation_history call and its result
    node,               \* the node of the agent graph that runs next
    eva_state,          \* the EvaState fields the graph routes on
    disk,               \* lines of the profile file shared by the writers
    w_pc,               \* position of each writer of the profile file
    w_data,             \* the dict each writer dumps
    saved               \* history: the writers in the order of their dumps

synthVars == <<pc, start_dt, end_dt, duration_minutes, max_suggestions,
               busy_times, busy_idx, current_time, free_slots>>

tzVars == <<tz_pc, tz_input, tz_zone, tz_local, tz_utc>>
profVars == <<profile_files, profile_ret>>
mailVars == <<mapping_files, selection_files, user_token_files,
              email_token_files, mail_ret>>
availVars == <<ca_pc, args, api_calendars, user_id, availability,
               self_calendar_ids, all_calendars, cal_idx, all_busy_times,
               query_log, result>>

convVars == <<messages, db_clock, conv_ret>>
graphVars == <<node, eva_state>>
raceVars == <<disk, w_pc, w_data, saved>>
sideVars == <<convVars, graphVars, raceVars>>

vars == <<synthVars, tzVars, profVars, mailVars, availVars, sideVars>>

(***************************************************************************)
(* Bounds of the input space                                               *)
(***************************************************************************)
MaxTime == 3        \* times of the enumerated inputs are 0..MaxTime
MaxBusy == 2        \* longest enumerated busy list
MaxDur == 2         \* largest enumerated duration
MaxSug == 3         \* largest enumerated max_suggestions

Times == 0..MaxTime
Durations == 1..MaxDur
Suggestions == (-1)..MaxSug

Interval(s, e) == [start |-> s, end |-> e]
Intervals == {Interval(s, e) : s \in Times, e \in Times} \cap
             {iv \in [start : Times, end : Times] : iv.start <= iv.end}
BusyLists == UNION {[1..n -> Intervals] : n \in 0..MaxBusy}

\* the two worked scenarios of the specification, in minutes of the day
ScenarioInputs ==
    { [ws |-> 540, we |-> 1020, dur |-> 30, maxs |-> 16, busy |-> <<>>],
      [ws |-> 540, we |-> 1020, dur |-> 60, maxs |-> 10,
       busy |-> <<Interval(720, 780)>>] }

SynthInputs ==
    [ws : Times, we : Times, dur : Durations, maxs : Suggestions, busy : BusyLists]
    \cup ScenarioInputs

(***************************************************************************)
(* Helpers of _find_free_slots                                             *)
(***************************************************************************)
Max(a, b) == IF a >= b THEN a ELSE b
Min(a, b) == IF a <= b THEN a ELSE b

\* list.sort(key=start) is stable: b goes after every element whose start
\* is <= b.start
RECURSIVE InsertByStart(_, _)
InsertByStart(b, s) ==
    IF s = <<>> THEN <<b>>
    ELSE IF s[Len(s)].start <= b.start THEN Append(s, b)
    ELSE Append(InsertByStart(b, SubSeq(s, 1, Len(s) - 1)), s[Len(s)])

RECURSIVE SortByStart(_)
SortByStart(s) ==
    IF s = <<>> THEN <<>>
    ELSE InsertByStart(s[Len(s)], SortByStart(SubSeq(s, 1, Len(s) - 1)))

\* the dict appended to free_slots
NewSlotOffByOne(cur, dur) ==
    [start |-> cur, end |-> cur + dur - 1, duration_minutes |-> dur]
NewSlot(cur, dur) ==
    [start |-> cur, end |-> cur + dur, duration_minutes |-> dur]

\* while current_time + duration <= busy_start and len(free_slots) < max_suggestions
CanEmitBeforeStrict(cur, dur, busy_start, n, maxs) ==
    cur + dur < busy_start /\ n < maxs
CanEmitBefore(cur, dur, busy_start, n, maxs) ==
    cur + dur <= busy_start /\ n < maxs

\* while current_time + duration <= end_dt and len(free_slots) < max_suggestions
CanEmitFinalUnbounded(cur, dur, wend, n, maxs) ==
    cur + dur <= wend
CanEmitFinalStrict(cur, dur, wend, n, maxs) ==
    cur + dur < wend /\ n < maxs
CanEmitFinal(cur, dur, wend, n, maxs) ==
    cur + dur <= wend /\ n < maxs

\* current_time = slot_end (move to the next potential slot)
CursorAfterSlotStuck(slot) == slot.start
CursorAfterSlot(slot) == slot.end

\* current_time = max(current_time, busy_end)
AdvanceCursorBackward(cur, busy_end) == busy_end
AdvanceCursor(cur, busy_end) == Max(cur, busy_end)

(***************************************************************************)
(* _find_free_slots, one action per statement group                        *)
(***************************************************************************)
SynthInit ==
    \E inp \in SynthInputs :
        /\ pc = "call"
        /\ start_dt = inp.ws
        /\ end_dt = inp.we
        /\ duration_minutes = inp.dur
        /\ max_suggestions = inp.maxs
        /\ busy_times = inp.busy
        /\ busy_idx = 0
        /\ current_time = 0
        /\ free_slots = <<>>

\* lines 1085-1099: parse, sort the busy list, initialise cursor and result
SortBusy ==
    /\ pc = "call"
    /\ busy_times' = SortByStart(busy_times)
    /\ free_slots' = <<>>
    /\ current_time' = start_dt
    /\ busy_idx' = 1
    /\ pc' = "for"
    /\ UNCHANGED <<start_dt, end_dt, duration_minutes, max_suggestions>>
    /\ UNCHANGED <<tzVars, profVars, mailVars, availVars, sideVars>>

\* line 1102: for busy in busy_times (next element, or loop exhausted)
ForNext ==
    /\ pc = "for"
    /\ pc' = IF busy_idx <= Len(busy_times) THEN "while" ELSE "final"
    /\ UNCHANGED <<start_dt, end_dt, duration_minutes, max_suggestions,
                   busy_times, busy_idx, current_time, free_slots>>
    /\ UNCHANGED <<tzVars, profVars, mailVars, availVars, sideVars>>

\* lines 1107-1120: one iteration of the inner while, with its break
EmitBefore ==
    /\ pc = "while"
    /\ CanEmitBefore(current_time, duration_minutes,
                     busy_times[busy_idx].start, Len(free_slots), max_suggestions)
    /\ free_slots' = Append(free_slots, NewSlot(current_time, duration_minutes))
    /\ current_time' = CursorAfterSlot(NewSlot(current_time, duration_minutes))
    /\ pc' = IF Len(free_slots') >= max_suggestions THEN "endwhile" ELSE "while"
    /\ UNCHANGED <<start_dt, end_dt, duration_minutes, max_suggestions,
                   busy_times, busy_idx>>
    /\ UNCHANGED <<tzVars, profVars, mailVars, availVars, sideVars>>

\* line 1107: the while condition is false
ExitWhile ==
    /\ pc = "while"
    /\ ~CanEmitBefore(current_time, duration_minutes,
                      busy_times[busy_idx].start, Len(free_slots), max_suggestions)
    /\ pc' = "endwhile"
    /\ UNCHANGED <<start_dt, end_dt, duration_minutes, max_suggestions,
                   busy_times, busy_idx, current_time, free_slots>>
    /\ UNCHANGED <<tzVars, profVars, mailVars, availVars, sideVars>>

\* lines 1122-1123: break out of the for loop when the result is full
BreakFor ==
    /\ pc = "endwhile"
    /\ Len(free_slots) >= max_suggestions
    /\ pc' = "final"
    /\ UNCHANGED <<start_dt, end_dt, duration_minutes, max_suggestions,
                   busy_times, busy_idx, current_time, free_slots>>
    /\ UNCHANGED <<tzVars, profVars, mailVars, availVars, sideVars>>

\* the for loop stays on the same busy period
NextBusyStuck(i) == i
\* the for loop takes the next element of busy_times
NextBusy(i) == i + 1

\* lines 1126-1127: move the cursor to the end of the busy period
SkipBusy ==
    /\ pc = "endwhile"
    /\ Len(free_slots) < max_suggestions
    /\ current_time' = AdvanceCursor(current_time, busy_times[busy_idx].end)
    /\ busy_idx' = NextBusy(busy_idx)
    /\ pc' = "for"
    /\ UNCHANGED <<start_dt, end_dt, duration_minutes, max_suggestions,
                   busy_times, free_slots>>
    /\ UNCHANGED <<tzVars, profVars, mailVars, availVars, sideVars>>

\* lines 1132-1142: one iteration of the trailing while
EmitFinal ==
    /\ pc = "final"
    /\ CanEmitFinal(current_time, duration_minutes, end_dt,
                    Len(free_slots), max_suggestions)
    /\ free_slots' = Append(free_slots, NewSlot(current_time, duration_minutes))
    /\ current_time' = CursorAfterSlot(NewSlot(current_time, duration_minutes))
    /\ UNCHANGED <<pc, start_dt, end_dt, duration_minutes, max_suggestions,
                   busy_times, busy_idx>>
    /\ UNCHANGED <<tzVars, profVars, mailVars, availVars, sideVars>>

\* line 1149: return free_slots
ReturnSlots ==
    /\ pc = "final"
    /\ ~CanEmitFinal(current_time, duration_minutes, end_dt,
                     Len(free_slots), max_suggestions)
    /\ pc' = "done"
    /\ UNCHANGED <<start_dt, end_dt, duration_minutes, max_suggestions,
                   busy_times, busy_idx, current_time, free_slots>>
    /\ UNCHANGED <<tzVars, profVars, mailVars, availVars, sideVars>>

(***************************************************************************)
(* Properties of the synthesizer                                           *)
(***************************************************************************)
Returned == pc = "done"
NumSlots == Len(free_slots)
NumBusy == Len(busy_times)

\* slot [start, end) meets the busy interval: also a busy instant
\* (start = end) strictly inside the slot counts
Overlaps(slot, b) == slot.start < b.end /\ b.start < slot.end

\* C1: no returned slot overlaps any busy interval of the input, for
\* disjoint, overlapping or nested busy intervals and any duration >= 1
C1_NoSlotOverlapsBusy ==
    (Returned /\ duration_minutes >= 1) =>
        \A i \in 1..NumSlots : \A j \in 1..NumBusy :
            ~Overlaps(free_slots[i], busy_times[j])

\* a later busy interval is contained in an earlier one, and a slot was
\* emitted after the enclosing interval
C1_Witness ==
    /\ Returned
    /\ NumBusy = 2
    /\ busy_times[1].start <= busy_times[2].start
    /\ busy_times[2].end < busy_times[1].end
    /\ NumSlots >= 2
    /\ free_slots[1].end <= busy_times[1].start
    /\ free_slots[NumSlots].start >= busy_times[1].end

\* C2: every returned slot lies inside the working window
C2_SlotsInsideWindow ==
    (Returned /\ duration_minutes >= 1) =>
        \A i \in 1..NumSlots :
            start_dt <= free_slots[i].start /\ free_slots[i].end <= end_dt

\* C3: every returned slot is exactly duration_minutes long and carries the
\* requested duration in its duration_minutes field
C3_ExactDuration ==
    Returned =>
        \A i \in 1..NumSlots :
            /\ free_slots[i].end - free_slots[i].start = duration_minutes
            /\ free_slots[i].duration_minutes = duration_minutes

C3_Witness ==
    /\ Returned
    /\ duration_minutes = 2
    /\ NumBusy >= 1
    /\ NumSlots >= 1
    /\ free_slots[1].end - free_slots[1].start = 2

\* C4: returned slots are strictly ascending by start and pairwise
\* non-overlapping
C4_StrictlyAscending ==
    (Returned /\ duration_minutes >= 1) =>
        \A i \in 1..(NumSlots - 1) :
            /\ free_slots[i].start < free_slots[i + 1].start
            /\ free_slots[i].end <= free_slots[i + 1].start

\* three slots, with a busy interval between two of them
C4_Witness ==
    /\ Returned
    /\ NumSlots >= 3
    /\ \E i \in 1..(NumSlots - 1) : free_slots[i].end < free_slots[i + 1].start

\* C5: never more than max_suggestions slots, none when max_suggestions <= 0
C5_AtMostMaxSuggestions ==
    Returned =>
        /\ NumSlots <= Max(max_suggestions, 0)
        /\ (max_suggestions <= 0 => free_slots = <<>>)

\* the result was cut at max_suggestions although the window had room left
C5_Witness ==
    /\ Returned
    /\ max_suggestions >= 2
    /\ NumSlots = max_suggestions
    /\ current_time + duration_minutes <= end_dt

\* C6: with no busy interval the window is filled from window_start with
\* back-to-back slots: min(max_suggestions, floor(width / duration)) of them
\* (none when that number is negative), and the 09:00-17:00 / 30 / 16
\* scenario gives 16 slots, the last ending at 17:00
C6_EmptyBusyFillsWindow ==
    (Returned /\ busy_times = <<>> /\ duration_minutes >= 1) =>
        /\ NumSlots = Max(0, Min(max_suggestions,
                                 (end_dt - start_dt) \div duration_minutes))
        /\ \A i \in 1..NumSlots :
              /\ free_slots[i].start = start_dt + (i - 1) * duration_minutes
              /\ free_slots[i].end = start_dt + i * duration_minutes
        /\ (end_dt - start_dt = duration_minutes /\ max_suggestions >= 1) =>
              free_slots = <<[start |-> start_dt, end |-> end_dt,
                              duration_minutes |-> duration_minutes]>>
        /\ (start_dt = 540 /\ end_dt = 1020 /\ duration_minutes = 30
                /\ max_suggestions = 16) =>
              (NumSlots = 16 /\ free_slots[16].end = 1020)

C6_Witness ==
    /\ Returned
    /\ busy_times = <<>>
    /\ start_dt = 540 /\ end_dt = 1020
    /\ duration_minutes = 30 /\ max_suggestions = 16
    /\ NumSlots = 16
    /\ free_slots[1].start = 540
    /\ free_slots[16].end = 1020

\* C7: a window narrower than the duration yields no slot, for every busy list
C7_NarrowWindowNoSlots ==
    (Returned /\ duration_minutes >= 1
        /\ end_dt - start_dt < duration_minutes) => free_slots = <<>>

\* Reference for C8.  Busy intervals are closed: p is busy when some
\* interval contains it, the unit cell [t, t+1) is busy when one interval
\* covers it.  A gap starts at the window start or at a busy instant and
\* runs to the next busy instant or the window end.
BusyPoint(p) == \E j \in 1..NumBusy :
    busy_times[j].start <= p /\ p <= busy_times[j].end
CellBlocked(t) == \E j \in 1..NumBusy :
    busy_times[j].start <= t /\ t + 1 <= busy_times[j].end
GapStarts ==
    {g \in start_dt..(end_dt - 1) :
        (g = start_dt \/ BusyPoint(g)) /\ ~CellBlocked(g)}
GapEnd(g) ==
    CHOOSE h \in (g + 1)..end_dt :
        /\ h = end_dt \/ BusyPoint(h)
        /\ \A k \in (g + 1)..(h - 1) : ~BusyPoint(k)
GapSlots(g) ==
    [k \in 1..((GapEnd(g) - g) \div duration_minutes) |->
        [start |-> g + (k - 1) * duration_minutes,
         end |-> g + k * duration_minutes,
         duration_minutes |-> duration_minutes]]

RECURSIVE SlotsOfGaps(_)
SlotsOfGaps(gs) ==
    IF gs = {} THEN <<>>
    ELSE LET g == CHOOSE x \in gs : \A y \in gs : x <= y
         IN  GapSlots(g) \o SlotsOfGaps(gs \ {g})

Take(s, n) == SubSeq(s, 1, Min(Len(s), Max(n, 0)))
ReferenceSlots == Take(SlotsOfGaps(GapStarts), max_suggestions)

\* C8: when every busy interval starts before window_end, the result is the
\* reference: every free gap packed with floor(gap / duration) back-to-back
\* slots from its start, in time order, truncated to max_suggestions
C8_PacksEveryGap ==
    (Returned /\ duration_minutes >= 1
        /\ \A j \in 1..NumBusy : busy_times[j].start < end_dt)
    => free_slots = ReferenceSlots

\* 09:00-17:00, busy 12:00-13:00, duration 60, max 10: 09,10,11,13,14,15,16
C8_Witness ==
    /\ Returned
    /\ start_dt = 540 /\ end_dt = 1020
    /\ busy_times = <<Interval(720, 780)>>
    /\ duration_minutes = 60 /\ max_suggestions = 10
    /\ NumSlots = 7
    /\ \A i \in 1..3 : free_slots[i].start = 540 + (i - 1) * 60
    /\ \A i \in 4..7 : free_slots[i].start = 780 + (i - 4) * 60

(***************************************************************************)
(* Timezone layer.  A datetime string is its wall-clock reading (seconds   *)
(* since 2025-01-01T00:00:00 on that clock) with its suffix: none          *)
(* ("naive"), "Z", or a numeric UTC offset in seconds.  A datetime object  *)
(* is a wall-clock reading, aware or not, with its UTC offset.             *)
(***************************************************************************)
MaxTzSteps == 2     \* instants lie up to MaxTzSteps half hours around a base

TzStep == 30 * 60
\* America/New_York 2025: DST from 2025-03-09T07:00Z to 2025-11-02T06:00Z
DstStartUtc == 67 * 86400 + 7 * 3600
DstEndUtc == 305 * 86400 + 6 * 3600
\* on the local wall clock: first DST reading 03:00, last before 01:00
DstStartWall == 67 * 86400 + 3 * 3600
DstEndWall == 305 * 86400 + 1 * 3600

ValidZones == {"UTC", "Asia/Kolkata", "America/New_York"}
ZoneNames == ValidZones \cup {"Mars/Phobos"}

TzInstants ==
    {b + k * TzStep + e : b \in {0, DstStartUtc, DstEndUtc},
                          k \in (-MaxTzSteps)..MaxTzSteps, e \in {-1, 0, 1}}

\* a UTC instant as a string: "...Z", "...+00:00" or without suffix
TzInputs ==
    {[wall |-> t, kind |-> k, off |-> 0] :
        t \in TzInstants, k \in {"Z", "offset", "naive"}}

NoString == [wall |-> 0, kind |-> "unset", off |-> 0]

\* tzinfo.utcoffset of the zone at a UTC instant (pytz database)
UtcOffset(zone, t) ==
    CASE zone = "UTC" -> 0
      [] zone = "Asia/Kolkata" -> 5 * 3600 + 30 * 60
      [] zone = "America/New_York" ->
            IF DstStartUtc <= t /\ t < DstEndUtc THEN -4 * 3600 ELSE -5 * 3600

\* offset that tz.localize (is_dst=False) gives a naive wall-clock reading
LocalizeOffset(zone, wall) ==
    CASE zone = "UTC" -> 0
      [] zone = "Asia/Kolkata" -> 5 * 3600 + 30 * 60
      [] zone = "America/New_York" ->
            IF DstStartWall <= wall /\ wall < DstEndWall
            THEN -4 * 3600 ELSE -5 * 3600

\* dateutil.parser.parse
Parse(str) ==
    [wall |-> str.wall,
     aware |-> str.kind # "naive",
     off |-> IF str.kind = "offset" THEN str.off ELSE 0]

\* the UTC instant an aware datetime denotes
InstantOf(dt) == dt.wall - dt.off

\* tz.localize(dt) for a naive dt
Localize(zone, dt) ==
    [wall |-> dt.wall, aware |-> TRUE, off |-> LocalizeOffset(zone, dt.wall)]

\* dt.astimezone(tz)
AsTimezone(dt, zone) ==
    [wall |-> InstantOf(dt) + UtcOffset(zone, InstantOf(dt)),
     aware |-> TRUE,
     off |-> UtcOffset(zone, InstantOf(dt))]

\* dt.isoformat()
IsoFormat(dt) ==
    [wall |-> dt.wall,
     kind |-> IF dt.aware THEN "offset" ELSE "naive",
     off |-> dt.off]

\* str.replace('+00:00', 'Z')
ReplaceUtcOffsetByZ(str) ==
    IF str.kind = "offset" /\ str.off = 0
    THEN [str EXCEPT !.kind = "Z"] ELSE str

\* normalize_datetime_for_google_api: a qualified string passes through,
\* another one gets the Z suffix
normalize_datetime_for_google_api(str) ==
    IF str.kind # "naive" THEN str ELSE [str EXCEPT !.kind = "Z"]

\* convert_datetime_to_user_timezone; pytz.timezone raises on an unknown
\* name and the except branch returns the input string
convert_datetime_to_user_timezone(str, zone) ==
    LET dt == Parse(str)
        utc == IF dt.aware THEN dt ELSE Localize("UTC", dt)
    IN  IF zone \notin ValidZones THEN str
        ELSE IsoFormat(AsTimezone(utc, zone))

\* the same conversion, but the offset of the string is dropped and the
\* reading is taken to be in the user's zone
convert_from_reinterpreting(str, zone) ==
    LET dt == [Parse(str) EXCEPT !.aware = FALSE, !.off = 0]
    IN  IF zone \notin ValidZones
        THEN normalize_datetime_for_google_api(str)
        ELSE ReplaceUtcOffsetByZ(IsoFormat(AsTimezone(Localize(zone, dt), "UTC")))

\* convert_datetime_from_user_timezone: an explicit offset wins, a naive
\* string is localized into the user's zone (pytz.timezone is only called
\* then); the except branch falls back to the normalizer
convert_datetime_from_user_timezone(str, zone) ==
    LET dt == Parse(str)
    IN  IF ~dt.aware /\ zone \notin ValidZones
        THEN normalize_datetime_for_google_api(str)
        ELSE LET loc == IF dt.aware THEN dt ELSE Localize(zone, dt)
             IN  ReplaceUtcOffsetByZ(IsoFormat(AsTimezone(loc, "UTC")))

TzIdle ==
    /\ tz_pc = "idle"
    /\ tz_input = NoString
    /\ tz_zone = "UTC"
    /\ tz_local = NoString
    /\ tz_utc = NoString

TzInit ==
    /\ tz_pc = "input"
    /\ tz_input \in TzInputs
    /\ tz_zone \in ZoneNames
    /\ tz_local = NoString
    /\ tz_utc = NoString

SynthIdle ==
    /\ pc = "idle"
    /\ start_dt = 0
    /\ end_dt = 0
    /\ duration_minutes = 1
    /\ max_suggestions = 0
    /\ busy_times = <<>>
    /\ busy_idx = 0
    /\ current_time = 0
    /\ free_slots = <<>>

ToUserTimezone ==
    /\ tz_pc = "input"
    /\ tz_local' = convert_datetime_to_user_timezone(tz_input, tz_zone)
    /\ tz_pc' = "local"
    /\ UNCHANGED <<tz_input, tz_zone, tz_utc>>
    /\ UNCHANGED <<synthVars, profVars, mailVars, availVars, sideVars>>

FromUserTimezone ==
    /\ tz_pc = "local"
    /\ tz_utc' = convert_datetime_from_user_timezone(tz_local, tz_zone)
    /\ tz_pc' = "utc"
    /\ UNCHANGED <<tz_input, tz_zone, tz_local>>
    /\ UNCHANGED <<synthVars, profVars, mailVars, availVars, sideVars>>

\* C9: for a UTC instant t and a valid zone Z, from_zone(to_zone(t, Z), Z)
\* denotes the instant t and is a UTC string with the Z suffix
C9_TimezoneRoundTrip ==
    (tz_pc = "utc" /\ tz_zone \in ValidZones) =>
        /\ tz_utc.kind = "Z"
        /\ InstantOf(Parse(tz_utc)) = tz_input.wall

\* the local string lies in the ambiguous hour at the end of DST
C9_Witness ==
    /\ tz_pc = "utc"
    /\ tz_zone = "America/New_York"
    /\ tz_local.kind = "offset" /\ tz_local.off = -4 * 3600
    /\ DstEndWall <= tz_local.wall /\ tz_local.wall < DstEndWall + 3600
    /\ tz_utc.kind = "Z"
    /\ tz_utc.wall = tz_input.wall

(***************************************************************************)
(* Profile store (UserAuthManager).  A profile file is absent or holds a   *)
(* JSON object, modelled as a function from its keys to their values.  The *)
(* created_at / updated_at timestamps are left out.                        *)
(***************************************************************************)
Users == {"u1"}

Days == {"monday", "tuesday", "wednesday", "thursday", "friday",
         "saturday", "sunday"}
NameFields == {"first_name", "last_name", "display_name", "email"}

\* one weekday entry of the default profile
DefaultDay(d) ==
    [enabled |-> d \notin {"saturday", "sunday"}, start |-> "09:00", end |-> "17:00"]
DefaultWorkingHours == [d \in Days |-> DefaultDay(d)]

\* default_profile of get_user_profile
DefaultProfile(u) ==
    [user_id |-> u, first_name |-> "None", last_name |-> "None",
     display_name |-> "None", email |-> "None", timezone |-> "UTC",
     working_hours |-> DefaultWorkingHours]

\* {**a, **b}
MergeDicts(a, b) ==
    [k \in (DOMAIN a) \cup (DOMAIN b) |-> IF k \in DOMAIN b THEN b[k] ELSE a[k]]

\* dict[key] = value
SetKey(d, key, value) ==
    [k \in (DOMAIN d) \cup {key} |-> IF k = key THEN value ELSE d[k]]

NoFile == [exists |-> FALSE, data |-> [k \in {} |-> 0]]
FileWith(d) == [exists |-> TRUE, data |-> d]

\* the loop "for day in default_profile['working_hours']" left out
NoBackfill(wh) == wh
\* the loop "for day in default_profile['working_hours']": days missing
\* from the stored mapping get the default entry
BackfillDays(wh) ==
    [d \in (DOMAIN wh) \cup Days |->
        IF d \in DOMAIN wh THEN wh[d] ELSE DefaultWorkingHours[d]]

\* get_user_profile
get_user_profile(files, u) ==
    IF ~files[u].exists THEN DefaultProfile(u)
    ELSE LET merged == MergeDicts(DefaultProfile(u), files[u].data)
         IN  IF "working_hours" \notin DOMAIN merged
             THEN SetKey(merged, "working_hours", DefaultWorkingHours)
             ELSE SetKey(merged, "working_hours",
                         BackfillDays(merged["working_hours"]))

\* get_user_timezone
get_user_timezone(files, u) ==
    IF ~files[u].exists THEN "UTC"
    ELSE IF "timezone" \in DOMAIN files[u].data
         THEN files[u].data["timezone"] ELSE "UTC"

\* inputs of set_user_working_hours: any subset of the weekdays, each
\* present day with a custom entry
CustomDay == [enabled |-> TRUE, start |-> "10:00", end |-> "18:00"]
HoursInputs == {[d \in S |-> CustomDay] : S \in SUBSET Days}

\* name.strip() / email.strip().lower() on the enumerated inputs
NameInputs == {"", " Ada "}
Strip(v) == IF v = " Ada " THEN "Ada" ELSE v
Lower(v) == IF v = "Ada" THEN "ada" ELSE v
\* "x.strip() if x else None"
CleanName(field, v) ==
    IF v = "" THEN "None"
    ELSE IF field = "email" THEN Lower(Strip(v)) ELSE Strip(v)

ProfileIdle ==
    /\ profile_files = [u \in Users |-> NoFile]
    /\ profile_ret = [op |-> "none", ok |-> TRUE]

ProfileInit == ProfileIdle

\* pytz.timezone(timezone) raises for a name that is not in the database
AcceptAnyTimezone(zone) == TRUE
IsValidTimezone(zone) == zone \in ValidZones

\* set_user_timezone: validate, load the stored object (or {}), update the
\* timezone and user_id keys, write
SetUserTimezone(u, zone) ==
    /\ IF ~IsValidTimezone(zone)
       THEN /\ profile_ret' = [op |-> "set_user_timezone", ok |-> FALSE]
            /\ UNCHANGED profile_files
       ELSE LET old == IF profile_files[u].exists
                       THEN profile_files[u].data ELSE [k \in {} |-> 0]
                new == MergeDicts(old, [user_id |-> u, timezone |-> zone])
            IN  /\ profile_files' = [profile_files EXCEPT ![u] = FileWith(new)]
                /\ profile_ret' = [op |-> "set_user_timezone", ok |-> TRUE]
    /\ UNCHANGED <<synthVars, tzVars, mailVars, availVars, sideVars>>

\* set_user_working_hours: read the merged profile, replace working_hours,
\* write the whole profile
SetUserWorkingHours(u, hours) ==
    /\ profile_files' =
          [profile_files EXCEPT ![u] =
              FileWith(SetKey(get_user_profile(profile_files, u),
                              "working_hours", hours))]
    /\ profile_ret' = [op |-> "set_user_working_hours", ok |-> TRUE]
    /\ UNCHANGED <<synthVars, tzVars, mailVars, availVars, sideVars>>

\* set_user_name with one name field provided: read the merged profile,
\* update the field, write the whole profile
SetUserName(u, field, v) ==
    /\ profile_files' =
          [profile_files EXCEPT ![u] =
              FileWith(SetKey(get_user_profile(profile_files, u),
                              field, CleanName(field, v)))]
    /\ profile_ret' = [op |-> "set_user_name", ok |-> TRUE]
    /\ UNCHANGED <<synthVars, tzVars, mailVars, availVars, sideVars>>

ProfileKeys ==
    {"user_id", "first_name", "last_name", "display_name", "email",
     "timezone", "working_hours"}

\* the working_hours mapping of the stored record, empty when there is none
StoredHours(u) ==
    IF profile_files[u].exists /\ "working_hours" \in DOMAIN profile_files[u].data
    THEN profile_files[u].data["working_hours"]
    ELSE [d \in {} |-> CustomDay]

\* C10: get_user_profile always returns a complete profile whose
\* working_hours has all seven weekdays: the default profile when no record
\* is stored, and otherwise the stored entries with the missing days
\* backfilled from the defaults
C10_AllSevenDaysAfterRead ==
    \A u \in Users :
        LET p == get_user_profile(profile_files, u)
        IN  /\ ProfileKeys \subseteq DOMAIN p
            /\ Days \subseteq DOMAIN p["working_hours"]
            /\ ~profile_files[u].exists =>
                  /\ p["timezone"] = "UTC"
                  /\ \A d \in Days : p["working_hours"][d] = DefaultDay(d)
            /\ \A d \in Days :
                  p["working_hours"][d] =
                      IF d \in DOMAIN StoredHours(u)
                      THEN StoredHours(u)[d] ELSE DefaultDay(d)

\* a record written by set_user_name and set_user_timezone, then by
\* set_user_working_hours with a mapping that omits five days
C10_Witness ==
    \E u \in Users :
        /\ profile_files[u].exists
        /\ profile_ret.op = "set_user_working_hours"
        /\ DOMAIN StoredHours(u) = {"monday", "sunday"}
        /\ profile_files[u].data["timezone"] = "Asia/Kolkata"
        /\ profile_files[u].data["first_name"] = "Ada"
        /\ get_user_profile(profile_files, u)["working_hours"]["friday"]
              = DefaultDay("friday")
        /\ get_user_profile(profile_files, u)["working_hours"]["sunday"]
              = CustomDay

\* C11: set_user_timezone with a name that is not an IANA zone returns
\* False and persists nothing: the stored record and the answer of
\* get_user_timezone are what they were before the call
C11_InvalidTimezoneNotPersisted ==
    [][\A u \in Users : \A zone \in ZoneNames \ ValidZones :
          SetUserTimezone(u, zone) =>
              /\ profile_ret'.op = "set_user_timezone"
              /\ ~profile_ret'.ok
              /\ profile_files' = profile_files
              /\ get_user_timezone(profile_files', u)
                    = get_user_timezone(profile_files, u)]_vars

\* the call was rejected while a record with another timezone is stored
C11_Witness ==
    \E u \in Users :
        /\ profile_ret = [op |-> "set_user_timezone", ok |-> FALSE]
        /\ profile_files[u].exists
        /\ get_user_timezone(profile_files, u) = "Asia/Kolkata"

(***************************************************************************)
(* Email mapping store and identity resolution (UserAuthManager).  The     *)
(* token files and the calendar selection files are written by the OAuth   *)
(* flow, which is not modelled: they are chosen initially.  Writing a      *)
(* mapping file is taken to succeed.                                       *)
(***************************************************************************)
MailUsers == {"u1", "u2"}
Emails == {"a@x.com", "b@x.com"}

Range(seq) == {seq[i] : i \in 1..Len(seq)}

\* _get_user_email_token_file(u, e) and _get_user_token_file(u)
EmailTokenPath(u, e) == <<"email", u, e>>
UserTokenPath(u) == <<"user", u, "-">>

\* token_file.exists() (and st_size > 0)
PathExists(path, utf, etf) ==
    IF path[1] = "email" THEN <<path[2], path[3]>> \in etf ELSE path[2] \in utf

\* default_mapping of get_user_email_mapping
DefaultMapping ==
    [primary_email |-> "None", owned_emails |-> <<>>,
     email_to_token_mapping |-> [e \in {} |-> <<"user", "-", "-">>]]

NoMapping == [exists |-> FALSE, data |-> DefaultMapping]

\* get_user_email_mapping
get_user_email_mapping(files, u) ==
    IF ~files[u].exists THEN DefaultMapping ELSE files[u].data

\* get_owned_emails_for_user
get_owned_emails_for_user(files, u) ==
    get_user_email_mapping(files, u).owned_emails

\* get_user_selected_calendars
get_user_selected_calendars(sel, u) == sel[u]

\* has_any_connected_calendars: some owned email has a token entry whose
\* file exists
has_any_connected_calendars(files, utf, etf, u) ==
    LET m == get_user_email_mapping(files, u)
    IN  \E e \in Range(m.owned_emails) :
            /\ e \in DOMAIN m.email_to_token_mapping
            /\ PathExists(m.email_to_token_mapping[e], utf, etf)

\* list_connected_users: users with a mapping file and a valid token file,
\* and users whose own token file is non-empty
list_connected_users(files, utf, etf) ==
    {u \in MailUsers :
        \/ files[u].exists /\ has_any_connected_calendars(files, utf, etf, u)
        \/ u \in utf}

\* list.remove(email)
RECURSIVE RemoveFirst(_, _)
RemoveFirst(seq, e) ==
    IF seq = <<>> THEN <<>>
    ELSE IF seq[1] = e THEN Tail(seq)
    ELSE <<seq[1]>> \o RemoveFirst(Tail(seq), e)

\* del dict[key]
DelKey(d, key) == [k \in (DOMAIN d) \ {key} |-> d[k]]

\* remove_email_from_user, primary left alone
PrimaryAfterRemoveKept(primary, owned_after, e) == primary
\* remove_email_from_user: the primary moves to the first remaining email
\* (or None) when it was the removed one
PrimaryAfterRemove(primary, owned_after, e) ==
    IF primary = e
    THEN (IF owned_after # <<>> THEN owned_after[1] ELSE "None")
    ELSE primary

\* the mapping written by add_email_to_user
MappingAfterAdd(m, e, path) ==
    [primary_email |-> IF m.primary_email = "None" THEN e ELSE m.primary_email,
     owned_emails |-> IF e \in Range(m.owned_emails) THEN m.owned_emails
                      ELSE Append(m.owned_emails, e),
     email_to_token_mapping |-> SetKey(m.email_to_token_mapping, e, path)]

\* the mapping written by remove_email_from_user
MappingAfterRemove(m, e) ==
    LET owned == RemoveFirst(m.owned_emails, e)
    IN  [primary_email |-> PrimaryAfterRemove(m.primary_email, owned, e),
         owned_emails |-> owned,
         email_to_token_mapping |-> DelKey(m.email_to_token_mapping, e)]

\* the mapping written by _auto_migrate_legacy_user_to_email_system
MappingAfterMigrate(m, u, e, utf) ==
    [primary_email |-> IF m.primary_email = "None" THEN e ELSE m.primary_email,
     owned_emails |-> IF e \in Range(m.owned_emails) THEN m.owned_emails
                      ELSE Append(m.owned_emails, e),
     email_to_token_mapping |->
        IF e \notin DOMAIN m.email_to_token_mapping /\ u \in utf
        THEN SetKey(m.email_to_token_mapping, e, UserTokenPath(u))
        ELSE m.email_to_token_mapping]

SaveMapping(files, u, m) == [files EXCEPT ![u] = [exists |-> TRUE, data |-> m]]

MailRet(op, u, e, ok, found) ==
    [op |-> op, user |-> u, email |-> e, ok |-> ok, found |-> found]

MailEnvInit ==
    /\ selection_files \in [MailUsers -> SUBSET Emails]
    /\ user_token_files \in SUBSET MailUsers
    /\ email_token_files \in {S \X Emails : S \in SUBSET MailUsers}

MailIdle ==
    /\ mapping_files = [u \in MailUsers |-> NoMapping]
    /\ selection_files = [u \in MailUsers |-> {}]
    /\ user_token_files = {}
    /\ email_token_files = {}
    /\ mail_ret = MailRet("none", "None", "None", TRUE, "None")

MailInit ==
    /\ mapping_files = [u \in MailUsers |-> NoMapping]
    /\ MailEnvInit
    /\ mail_ret = MailRet("none", "None", "None", TRUE, "None")

mailEnv == <<selection_files, user_token_files, email_token_files>>

\* add_email_to_user
AddEmailToUser(u, e) ==
    /\ mapping_files' =
          SaveMapping(mapping_files, u,
              MappingAfterAdd(get_user_email_mapping(mapping_files, u), e,
                              EmailTokenPath(u, e)))
    /\ mail_ret' = MailRet("add", u, e, TRUE, "None")
    /\ UNCHANGED mailEnv
    /\ UNCHANGED <<synthVars, tzVars, profVars, availVars, sideVars>>

\* remove_email_from_user
RemoveEmailFromUser(u, e) ==
    /\ mapping_files' =
          SaveMapping(mapping_files, u,
              MappingAfterRemove(get_user_email_mapping(mapping_files, u), e))
    /\ mail_ret' = MailRet("remove", u, e, TRUE, "None")
    /\ UNCHANGED mailEnv
    /\ UNCHANGED <<synthVars, tzVars, profVars, availVars, sideVars>>

\* set_primary_email_for_user
SetPrimaryEmailForUser(u, e) ==
    /\ LET m == get_user_email_mapping(mapping_files, u)
       IN  IF e \notin Range(m.owned_emails)
           THEN /\ mail_ret' = MailRet("set_primary", u, e, FALSE, "None")
                /\ UNCHANGED mapping_files
           ELSE /\ mapping_files' =
                      SaveMapping(mapping_files, u, [m EXCEPT !.primary_email = e])
                /\ mail_ret' = MailRet("set_primary", u, e, TRUE, "None")
    /\ UNCHANGED mailEnv
    /\ UNCHANGED <<synthVars, tzVars, profVars, availVars, sideVars>>

\* users found by method 1 (email mappings) of find_user_id_for_email
OwnersAmongConnected(files, utf, etf, e) ==
    {u \in list_connected_users(files, utf, etf) :
        e \in Range(get_owned_emails_for_user(files, u))}

\* users found by method 2 (calendar selection files, legacy fallback)
LegacyOwners(files, sel, utf, etf, e) ==
    {u \in list_connected_users(files, utf, etf) :
        e \in get_user_selected_calendars(sel, u)}

\* find_user_id_for_email as a relation: the connected users are
\* enumerated in the order of list(set) and the first match is returned; a
\* match of the legacy fallback is auto-migrated before it is returned.
\* An outcome is the returned user and the mapping files left behind.
FindOutcomes(files, sel, utf, etf, e) ==
    LET m1 == OwnersAmongConnected(files, utf, etf, e)
        m2 == LegacyOwners(files, sel, utf, etf, e)
    IN  IF m1 # {}
        THEN {[found |-> u, files |-> files] : u \in m1}
        ELSE IF m2 # {}
        THEN {[found |-> u,
               files |-> SaveMapping(files, u,
                            MappingAfterMigrate(get_user_email_mapping(files, u),
                                                u, e, utf))] : u \in m2}
        ELSE {[found |-> "None", files |-> files]}

\* find_user_id_for_email
FindUserIdForEmail(e) ==
    /\ \E o \in FindOutcomes(mapping_files, selection_files, user_token_files,
                            email_token_files, e) :
          /\ mapping_files' = o.files
          /\ mail_ret' = MailRet("find", "None", e, TRUE, o.found)
    /\ UNCHANGED mailEnv
    /\ UNCHANGED <<synthVars, tzVars, profVars, availVars, sideVars>>

\* users whose stored mapping lists the email
Owners(files, e) ==
    {u \in MailUsers : e \in Range(get_owned_emails_for_user(files, u))}

\* C12: the primary email is unset or one of the owned emails, and it is
\* unset when no email is owned, after any sequence of add, remove,
\* set-primary and legacy auto-migration
C12_PrimaryIsOwned ==
    \A u \in MailUsers :
        LET m == get_user_email_mapping(mapping_files, u)
        IN  /\ m.primary_email = "None" \/ m.primary_email \in Range(m.owned_emails)
            /\ m.owned_emails = <<>> => m.primary_email = "None"

\* the primary email was removed while another email stays owned, and the
\* last owned email of a user was removed
C12_Witness ==
    /\ mail_ret.op = "remove"
    /\ mapping_files[mail_ret.user].exists
    /\ mapping_files[mail_ret.user].data.owned_emails = <<>>
    /\ mapping_files[mail_ret.user].data.primary_email = "None"
    /\ \E v \in MailUsers \ {mail_ret.user} :
          /\ Len(mapping_files[v].data.owned_emails) = 1
          /\ mapping_files[v].data.primary_email \in
                Range(mapping_files[v].data.owned_emails)
          /\ v \in user_token_files
          /\ mapping_files[v].data.email_to_token_mapping
                [mapping_files[v].data.primary_email] = UserTokenPath(v)

\* C13: find_user_id_for_email(e) returns an owner of e when e is in the
\* owned_emails of a stored mapping, and None when it is in no mapping
C13_FindResolvesOwnedEmails ==
    [][\A e \in Emails :
          FindUserIdForEmail(e) =>
              IF Owners(mapping_files, e) # {}
              THEN mail_ret'.found \in Owners(mapping_files, e)
              ELSE mail_ret'.found = "None"]_vars

\* C14: right after a successful remove_email_from_user(u, e), with e owned
\* by no user, find_user_id_for_email(e) returns None and e stays out of
\* the owned emails of u
C14_RemovedEmailStaysRemoved ==
    [][(/\ mail_ret.op = "remove" /\ mail_ret.ok
        /\ Owners(mapping_files, mail_ret.email) = {}
        /\ FindUserIdForEmail(mail_ret.email))
       => /\ mail_ret'.found = "None"
          /\ mail_ret.email \notin
                Range(get_owned_emails_for_user(mapping_files', mail_ret.user))]_vars

(***************************************************************************)
(* CheckAvailabilityTool.run_with_context, one action per call it makes.   *)
(* The Google side (calendar list, event queries, credential loading) is   *)
(* the environment: the calendar list is fixed initially, the outcome of   *)
(* each request is chosen when the request is made.                        *)
(***************************************************************************)
CalendarIds == {"a@x.com", "a@x.com#work", "b@x.com"}

\* cal_id == email or cal_id.startswith(email), on the enumerated ids
MatchesEmail(cal, e) == cal = e \/ (cal = "a@x.com#work" /\ e = "a@x.com")

\* a Monday and a Saturday
CheckDates == {"2025-01-20", "2025-01-25"}

\* datetime.strptime(date_str, '%Y-%m-%d'), in seconds since 2025-01-01
DateWall(d) ==
    CASE d = "2025-01-20" -> 19 * 86400
      [] d = "2025-01-25" -> 24 * 86400

\* date_obj.strftime('%A').lower()
DayName(d) ==
    CASE d = "2025-01-20" -> "monday"
      [] d = "2025-01-25" -> "saturday"

\* the time of day parsed by strptime(..., '%H:%M'), in seconds
ClockSeconds(hm) ==
    CASE hm = "09:00" -> 9 * 3600
      [] hm = "10:00" -> 10 * 3600
      [] hm = "17:00" -> 17 * 3600
      [] hm = "18:00" -> 18 * 3600

\* dict.get(key, default)
Get(d, key, default) == IF key \in DOMAIN d THEN d[key] ELSE default

\* f-string messages: the fixed text and the interpolated value
Message(text, value) == <<text, value>>

\* every day taken as a working day
DayAlwaysEnabled(day_config) == TRUE
\* day_config.get('enabled', False)
DayEnabled(day_config) == Get(day_config, "enabled", FALSE)

\* the date and time of day read in UTC, whatever the user's zone
UtcDateTime(zone, date, hm) ==
    IsoFormat(Localize("UTC", [wall |-> DateWall(date) + ClockSeconds(hm),
                               aware |-> FALSE, off |-> 0]))
\* user_tz.localize(datetime.strptime(f"{date_str} {hm}", '%Y-%m-%d %H:%M'))
\* .isoformat()
LocalDateTime(zone, date, hm) ==
    IsoFormat(Localize(zone, [wall |-> DateWall(date) + ClockSeconds(hm),
                              aware |-> FALSE, off |-> 0]))

\* get_user_availability_for_date
get_user_availability_for_date(files, u, date) ==
    LET profile == get_user_profile(files, u)
        user_timezone == Get(profile, "timezone", "UTC")
        working_hours == Get(profile, "working_hours", <<>>)
        day_name == DayName(date)
        day_config == Get(working_hours, day_name, [enabled |-> FALSE])
        start_time == Get(day_config, "start", "09:00")
        end_time == Get(day_config, "end", "17:00")
    IN  IF ~DayEnabled(day_config)
        THEN [date |-> date, day |-> day_name, available |-> FALSE,
              reason |-> "Not a working day", timezone |-> user_timezone]
        ELSE IF user_timezone \notin ValidZones
        THEN [date |-> date, available |-> FALSE,
              error |-> Message("unknown timezone", user_timezone),
              timezone |-> get_user_timezone(files, u)]
        ELSE [date |-> date, day |-> day_name, available |-> TRUE,
              start_time |-> LocalDateTime(user_timezone, date, start_time),
              end_time |-> LocalDateTime(user_timezone, date, end_time),
              start_time_local |-> start_time,
              end_time_local |-> end_time,
              timezone |-> user_timezone]

\* display_timezone: explicit argument, else the primary user's timezone
\* of the context, else 'UTC'
DisplayTimezone(a) ==
    IF a.display_timezone # "None" THEN a.display_timezone
    ELSE IF a.primary_timezone # "None" THEN a.primary_timezone
    ELSE "UTC"

\* start_dt.astimezone(pytz.UTC).isoformat().replace('+00:00', 'Z')
ToUtcString(str) == ReplaceUtcOffsetByZ(IsoFormat(AsTimezone(Parse(str), "UTC")))

\* next((cal for cal in all_calendars if cal.get('primary')), None)
RECURSIVE FirstPrimary(_)
FirstPrimary(cals) ==
    IF cals = <<>> THEN "None"
    ELSE IF Get(cals[1], "primary", FALSE) THEN cals[1].id
    ELSE FirstPrimary(Tail(cals))

\* the first calendar of the list, whatever its flags
FirstListed(cals) == IF cals = <<>> THEN "None" ELSE cals[1].id
\* the fallback of run_with_context: the calendar marked primary
FallbackCalendar(cals) == FirstPrimary(cals)

\* the orders in which a set can be enumerated
Orderings(S) ==
    {seq \in [1..Cardinality(S) -> S] : {seq[i] : i \in 1..Cardinality(S)} = S}

\* events the API can return for a window that starts at the UTC instant
\* ws: two timed events inside the window and an all-day event
UtcString(t) == [wall |-> t, kind |-> "Z", off |-> 0]
TimedEvent(title, s, e) ==
    [summary |-> title, start |-> [dateTime |-> UtcString(s)],
     end |-> [dateTime |-> UtcString(e)]]
AllDayEvent(title, date) ==
    [summary |-> title, start |-> [date |-> date], end |-> [date |-> date]]

QueryOutcomes(ws, date) ==
    { [ok |-> FALSE, events |-> <<>>],
      [ok |-> TRUE, events |-> <<>>],
      [ok |-> TRUE, events |-> <<TimedEvent("Standup", ws + 3600, ws + 2 * 3600)>>],
      [ok |-> TRUE, events |-> <<AllDayEvent("Holiday", date),
                                 TimedEvent("Review", ws + 3600, ws + 3 * 3600)>>] }

\* the busy entry built from a timed event; an event without both
\* dateTime values contributes nothing
BusyOfEvent(ev, cal, zone) ==
    IF "dateTime" \in DOMAIN ev.start /\ "dateTime" \in DOMAIN ev.end
    THEN << [start |-> convert_datetime_to_user_timezone(ev.start.dateTime, zone),
             end |-> convert_datetime_to_user_timezone(ev.end.dateTime, zone),
             start_utc |-> ev.start.dateTime,
             end_utc |-> ev.end.dateTime,
             title |-> Get(ev, "summary", "Busy"),
             calendar |-> cal,
             timezone |-> zone] >>
    ELSE <<>>

RECURSIVE BusyOfEvents(_, _, _)
BusyOfEvents(events, cal, zone) ==
    IF events = <<>> THEN <<>>
    ELSE BusyOfEvent(events[1], cal, zone) \o BusyOfEvents(Tail(events), cal, zone)

\* a failed query throws away what was collected
BusyResetOnFailure(busy, out, cal, zone) ==
    IF out.ok THEN busy \o BusyOfEvents(out.events, cal, zone) ELSE <<>>
\* all_busy_times after the query of one calendar: the timed events of a
\* successful query are appended, a failed query adds nothing
BusyAfterQuery(busy, out, cal, zone) ==
    IF out.ok THEN busy \o BusyOfEvents(out.events, cal, zone) ELSE busy

\* sorted(all_busy_times, key=lambda x: x['start']): stable, by the ISO
\* string; the strings of one call carry one offset, so their order is the
\* order of the wall-clock readings
RECURSIVE InsertByStartString(_, _)
InsertByStartString(b, s) ==
    IF s = <<>> THEN <<b>>
    ELSE IF s[Len(s)].start.wall <= b.start.wall THEN Append(s, b)
    ELSE Append(InsertByStartString(b, SubSeq(s, 1, Len(s) - 1)), s[Len(s)])

RECURSIVE SortByStartString(_)
SortByStartString(s) ==
    IF s = <<>> THEN <<>>
    ELSE InsertByStartString(s[Len(s)], SortByStartString(SubSeq(s, 1, Len(s) - 1)))

\* datetime.fromisoformat(s.replace('Z', '+00:00')) as minutes since the
\* epoch of the model
ParsedMinutes(str) == InstantOf(Parse(str)) \div 60

\* the trailing while loop of _find_free_slots
RECURSIVE FinalSlots(_, _, _, _, _)
FinalSlots(cur, slots, wend, dur, maxs) ==
    IF CanEmitFinal(cur, dur, wend, Len(slots), maxs)
    THEN LET slot == NewSlot(cur, dur)
         IN  IF Len(slots) + 1 >= maxs THEN Append(slots, slot)
             ELSE FinalSlots(CursorAfterSlot(slot), Append(slots, slot),
                             wend, dur, maxs)
    ELSE slots

\* the for loop of _find_free_slots from busy period i on
RECURSIVE SlotsFrom(_, _, _, _, _, _, _)
SlotsFrom(cur, i, slots, busy, wend, dur, maxs) ==
    IF i > Len(busy) THEN FinalSlots(cur, slots, wend, dur, maxs)
    ELSE IF CanEmitBefore(cur, dur, busy[i].start, Len(slots), maxs)
    THEN LET slot == NewSlot(cur, dur)
         IN  IF Len(slots) + 1 >= maxs
             THEN FinalSlots(CursorAfterSlot(slot), Append(slots, slot),
                             wend, dur, maxs)
             ELSE SlotsFrom(CursorAfterSlot(slot), i, Append(slots, slot),
                            busy, wend, dur, maxs)
    ELSE IF Len(slots) >= maxs THEN FinalSlots(cur, slots, wend, dur, maxs)
    ELSE SlotsFrom(AdvanceCursor(cur, busy[i].end), i + 1, slots,
                   busy, wend, dur, maxs)

\* _find_free_slots on ISO strings: the slots carry the offset of the
\* display zone
find_free_slots(start_time, end_time, dur, busy, maxs) ==
    LET off == Parse(start_time).off
        ivs == SortByStart([i \in 1..Len(busy) |->
                  Interval(ParsedMinutes(busy[i].start), ParsedMinutes(busy[i].end))])
        slots == SlotsFrom(ParsedMinutes(start_time), 1, <<>>, ivs,
                           ParsedMinutes(end_time), dur, maxs)
        iso(m) == [wall |-> m * 60 + off, kind |-> "offset", off |-> off]
    IN  [i \in 1..Len(slots) |->
            [start |-> iso(slots[i].start), end |-> iso(slots[i].end),
             duration_minutes |-> slots[i].duration_minutes]]

\* busy_times.sort(key=lambda x: parse(x['start'])) inside _find_free_slots:
\* the list of the caller is sorted in place
RECURSIVE InsertByParsedStart(_, _)
InsertByParsedStart(b, s) ==
    IF s = <<>> THEN <<b>>
    ELSE IF ParsedMinutes(s[Len(s)].start) <= ParsedMinutes(b.start) THEN Append(s, b)
    ELSE Append(InsertByParsedStart(b, SubSeq(s, 1, Len(s) - 1)), s[Len(s)])

RECURSIVE SortByParsedStart(_)
SortByParsedStart(s) ==
    IF s = <<>> THEN <<>>
    ELSE InsertByParsedStart(s[Len(s)], SortByParsedStart(SubSeq(s, 1, Len(s) - 1)))

\* an unknown email answered like a day without working hours
NotConnectedAsOpen(a) ==
    [success |-> TRUE,
     free_slots |-> <<>>,
     email |-> a.email,
     date |-> a.date,
     display_timezone |-> DisplayTimezone(a)]
\* the result for an email that no user owns
NotConnectedResult(a) ==
    [success |-> FALSE,
     error |-> Message("Calendar not connected for email ", a.email),
     free_slots |-> <<>>,
     email |-> a.email,
     date |-> a.date,
     display_timezone |-> DisplayTimezone(a)]

\* the result when the user is not available on the date
NotAvailableResult(a, av) ==
    [success |-> TRUE,
     free_slots |-> <<>>,
     busy_times |-> <<>>,
     calendars_checked |-> 0,
     requested_duration |-> a.duration_minutes,
     email |-> a.email,
     user_timezone |-> Get(av, "timezone", "UTC"),
     display_timezone |-> DisplayTimezone(a),
     date |-> a.date,
     working_day |-> FALSE,
     reason |-> Get(av, "reason", "Not available"),
     message |-> Message("User is not available on ",
                         <<a.date, Get(av, "reason", "Not available")>>)]

\* the result when neither a self calendar nor a primary calendar exists
NoCalendarsResult(a, av) ==
    [success |-> FALSE,
     error |-> Message("No calendars available for email ", a.email),
     free_slots |-> <<>>,
     email |-> a.email,
     user_timezone |-> Get(av, "timezone", "UTC"),
     display_timezone |-> DisplayTimezone(a),
     date |-> a.date]

\* the result of the outer except branch
ExceptionResult(a, err) ==
    [success |-> FALSE,
     error |-> err,
     free_slots |-> <<>>,
     email |-> a.email,
     user_timezone |-> "UTC",
     display_timezone |-> DisplayTimezone(a),
     date |-> a.date]

\* 'calendars_checked': len(self_calendar_ids)
CalendarsChecked(ids, log) == Len(ids)

\* the result of a completed check
CheckedResult(a, av, ids, busy, log) ==
    LET zone == DisplayTimezone(a)
        sorted == SortByParsedStart(SortByStartString(busy))
        slots == find_free_slots(
                    convert_datetime_to_user_timezone(av.start_time, zone),
                    convert_datetime_to_user_timezone(av.end_time, zone),
                    a.duration_minutes, sorted, a.max_suggestions)
    IN  [success |-> TRUE,
         free_slots |->
            [i \in 1..Len(slots) |->
                [start |-> slots[i].start,
                 end |-> slots[i].end,
                 start_utc |-> convert_datetime_from_user_timezone(slots[i].start, zone),
                 end_utc |-> convert_datetime_from_user_timezone(slots[i].end, zone),
                 duration_minutes |-> slots[i].duration_minutes,
                 timezone |-> zone]],
         busy_times |-> sorted,
         calendars_checked |-> CalendarsChecked(ids, log),
         requested_duration |-> a.duration_minutes,
         email |-> a.email,
         user_timezone |-> Get(av, "timezone", "UTC"),
         display_timezone |-> zone,
         date |-> a.date,
         working_day |-> TRUE,
         working_hours |->
            [start |-> av.start_time_local,
             end |-> av.end_time_local,
             start_full |-> convert_datetime_to_user_timezone(av.start_time, zone),
             end_full |-> convert_datetime_to_user_timezone(av.end_time, zone),
             timezone |-> zone],
         message |-> Message("Found available slots on ", <<Len(slots), a.date, zone>>)]

NoDict == <<>>

AvailIdle ==
    /\ ca_pc = "idle"
    /\ args = NoDict
    /\ api_calendars = <<>>
    /\ user_id = "None"
    /\ availability = NoDict
    /\ self_calendar_ids = <<>>
    /\ all_calendars = "None"
    /\ cal_idx = 0
    /\ all_busy_times = <<>>
    /\ query_log = <<>>
    /\ result = NoDict

\* the arguments and the context of the call
ArgsInputs ==
    [email : Emails, date : CheckDates, duration_minutes : {60},
     max_suggestions : {2}, display_timezone : {"None", "Asia/Kolkata"},
     primary_timezone : {"None", "America/New_York"}]

\* calendar lists of the account
CalendarLists ==
    { <<>>,
      << [id |-> "a@x.com", primary |-> TRUE, accessRole |-> "owner"] >>,
      << [id |-> "team@group", accessRole |-> "reader"],
         [id |-> "a@x.com#work", accessRole |-> "owner"] >>,
      << [id |-> "team@group", accessRole |-> "reader"] >> }

DisabledDay == [enabled |-> FALSE, start |-> "09:00", end |-> "17:00"]

\* profile records: none, one written by set_user_timezone for a new
\* user, one written by set_user_working_hours for a new user
AvailProfiles ==
    { NoFile,
      FileWith([user_id |-> "u1", timezone |-> "Asia/Kolkata"]),
      FileWith(SetKey(DefaultProfile("u1"), "working_hours",
                      [monday |-> DisabledDay, saturday |-> CustomDay])) }

\* stores of user u1: with or without the mapping written by
\* add_email_to_user(u1, a@x.com), with or without the token files, any
\* calendar selection; u2 has nothing
AvailStores ==
    /\ mapping_files \in
          { [u \in MailUsers |-> NoMapping],
            SaveMapping([u \in MailUsers |-> NoMapping], "u1",
                        MappingAfterAdd(DefaultMapping, "a@x.com",
                                        EmailTokenPath("u1", "a@x.com"))) }
    /\ selection_files \in
          {[u \in MailUsers |-> IF u = "u1" THEN S ELSE {}] : S \in SUBSET CalendarIds}
    /\ user_token_files \in SUBSET {"u1"}
    /\ email_token_files \in SUBSET {<<"u1", "a@x.com">>}
    /\ mail_ret = MailRet("none", "None", "None", TRUE, "None")
    /\ profile_files \in [Users -> AvailProfiles]
    /\ profile_ret = [op |-> "none", ok |-> TRUE]

AvailInit ==
    /\ ca_pc = "call"
    /\ args \in ArgsInputs
    /\ api_calendars \in CalendarLists
    /\ user_id = "None"
    /\ availability = NoDict
    /\ self_calendar_ids = <<>>
    /\ all_calendars = "None"
    /\ cal_idx = 0
    /\ all_busy_times = <<>>
    /\ query_log = <<>>
    /\ result = NoDict
    /\ AvailStores

availLocals == <<user_id, availability, self_calendar_ids, all_calendars,
                 cal_idx, all_busy_times, query_log>>
availFrame == <<args, api_calendars, selection_files, user_token_files,
                email_token_files, mail_ret, profVars, synthVars, tzVars,
                sideVars>>

\* lines 832-842: resolve the email; an unknown email ends the call
CaResolve ==
    /\ ca_pc = "call"
    /\ \E o \in FindOutcomes(mapping_files, selection_files, user_token_files,
                            email_token_files, args.email) :
          /\ mapping_files' = o.files
          /\ user_id' = o.found
          /\ IF o.found = "None"
             THEN /\ result' = NotConnectedResult(args)
                  /\ ca_pc' = "done"
             ELSE /\ UNCHANGED result
                  /\ ca_pc' = "availability"
    /\ UNCHANGED <<availability, self_calendar_ids, all_calendars, cal_idx,
                   all_busy_times, query_log>>
    /\ UNCHANGED availFrame

\* lines 844-884: the availability of the date; a date that is not
\* available ends the call
CaAvailability ==
    /\ ca_pc = "availability"
    /\ LET av == get_user_availability_for_date(profile_files, user_id, args.date)
       IN  /\ availability' = av
           /\ IF ~Get(av, "available", FALSE)
              THEN /\ result' = NotAvailableResult(args, av)
                   /\ ca_pc' = "done"
              ELSE /\ UNCHANGED result
                   /\ ca_pc' = "service"
    /\ UNCHANGED <<user_id, self_calendar_ids, all_calendars, cal_idx,
                   all_busy_times, query_log, mapping_files>>
    /\ UNCHANGED availFrame

\* the exception get_calendar_service_for_email raises, or "None"
ServiceError(files, utf, etf, found, e) ==
    IF found = "None"
    THEN Message("Calendar not connected for email ", e)
    ELSE LET token_mapping == get_user_email_mapping(files, found).email_to_token_mapping
         IN  IF e \notin DOMAIN token_mapping
             THEN Message("No token file found for email ", e)
             ELSE IF ~PathExists(token_mapping[e], utf, etf)
             THEN Message("Token file does not exist for email ", e)
             ELSE "None"

\* line 890: get_calendar_service_for_email; any exception goes to the
\* outer except branch (loading or refreshing the credentials can fail)
CaService ==
    /\ ca_pc = "service"
    /\ \E o \in FindOutcomes(mapping_files, selection_files, user_token_files,
                            email_token_files, args.email) :
          /\ mapping_files' = o.files
          /\ LET err == ServiceError(o.files, user_token_files, email_token_files,
                                     o.found, args.email)
             IN  IF err # "None"
                 THEN /\ result' = ExceptionResult(args, err)
                      /\ ca_pc' = "done"
                 ELSE \E credentials_ok \in BOOLEAN :
                        IF credentials_ok
                        THEN /\ UNCHANGED result
                             /\ ca_pc' = "self_calendars"
                        ELSE /\ result' = ExceptionResult(args,
                                    Message("credentials", args.email))
                             /\ ca_pc' = "done"
    /\ UNCHANGED availLocals
    /\ UNCHANGED availFrame

\* line 894: get_user_self_calendars_for_email, the selected calendars of
\* the owner that match the email, in the order the set is enumerated
CaSelfCalendars ==
    /\ ca_pc = "self_calendars"
    /\ \E o \in FindOutcomes(mapping_files, selection_files, user_token_files,
                            email_token_files, args.email) :
          /\ mapping_files' = o.files
          /\ LET ids == IF o.found = "None" THEN {}
                        ELSE {c \in get_user_selected_calendars(selection_files, o.found) :
                                 MatchesEmail(c, args.email)}
             IN  \E seq \in Orderings(ids) :
                    /\ self_calendar_ids' = seq
                    /\ ca_pc' = IF seq # <<>> THEN "query" ELSE "calendar_list"
    /\ cal_idx' = 1
    /\ UNCHANGED <<user_id, availability, all_calendars, all_busy_times,
                   query_log, result>>
    /\ UNCHANGED availFrame

\* lines 896-919: no self calendar, fall back to the calendar list
CaCalendarList ==
    /\ ca_pc = "calendar_list"
    /\ \E list_ok \in BOOLEAN :
          IF ~list_ok
          THEN /\ result' = ExceptionResult(args, Message("transport", "calendarList"))
               /\ ca_pc' = "done"
               /\ UNCHANGED <<all_calendars, self_calendar_ids>>
          ELSE /\ all_calendars' = api_calendars
               /\ IF FallbackCalendar(api_calendars) # "None"
                  THEN /\ self_calendar_ids' = <<FallbackCalendar(api_calendars)>>
                       /\ ca_pc' = "query"
                       /\ UNCHANGED result
                  ELSE /\ result' = NoCalendarsResult(args, availability)
                       /\ ca_pc' = "done"
                       /\ UNCHANGED self_calendar_ids
    /\ UNCHANGED <<user_id, availability, cal_idx, all_busy_times, query_log,
                   mapping_files>>
    /\ UNCHANGED availFrame

\* lines 927-966: one iteration of the loop over the calendars; a failed
\* query is logged and skipped
CaQuery ==
    /\ ca_pc = "query"
    /\ cal_idx <= Len(self_calendar_ids)
    /\ LET cal == self_calendar_ids[cal_idx]
           ws == ToUtcString(availability.start_time).wall
       IN  \E out \in QueryOutcomes(ws, args.date) :
              /\ query_log' = Append(query_log,
                                [calendar |-> cal, ok |-> out.ok, events |-> out.events])
              /\ all_busy_times' =
                    BusyAfterQuery(all_busy_times, out, cal, DisplayTimezone(args))
    /\ cal_idx' = cal_idx + 1
    /\ UNCHANGED <<ca_pc, user_id, availability, self_calendar_ids,
                   all_calendars, result, mapping_files>>
    /\ UNCHANGED availFrame

\* lines 931-939: the awaited events().list request does not complete; the
\* await has no timeout and the loop is sequential, so the call stays here
CaQueryNeverReturns ==
    /\ ca_pc = "query"
    /\ cal_idx <= Len(self_calendar_ids)
    /\ ca_pc' = "awaiting"
    /\ UNCHANGED <<result, mapping_files>>
    /\ UNCHANGED availLocals
    /\ UNCHANGED availFrame

\* lines 968-1061: sort, synthesize the free slots, build the result
CaFinish ==
    /\ ca_pc = "query"
    /\ cal_idx > Len(self_calendar_ids)
    /\ result' = CheckedResult(args, availability, self_calendar_ids,
                               all_busy_times, query_log)
    /\ ca_pc' = "done"
    /\ UNCHANGED <<mapping_files>>
    /\ UNCHANGED availLocals
    /\ UNCHANGED availFrame

\* the check has returned
CaDone == ca_pc = "done"

\* error texts that contain 'not connected'
MentionsNotConnected(err) == err[1] \in {"Calendar not connected for email "}

\* C15: check_availability for an email that resolves to no user returns a
\* result (no exception) with success = false, an error text containing
\* 'not connected' and an empty free_slots list
C15_UnknownEmailNotConnected ==
    (CaDone /\ user_id = "None") =>
        /\ {"success", "error", "free_slots"} \subseteq DOMAIN result
        /\ result.success = FALSE
        /\ MentionsNotConnected(result.error)
        /\ result.free_slots = <<>>

\* the email is owned by nobody and selected by nobody, while another email
\* of the store is connected
C15_Witness ==
    /\ CaDone
    /\ user_id = "None"
    /\ args.email = "b@x.com"
    /\ "u1" \in list_connected_users(mapping_files, user_token_files, email_token_files)
    /\ Owners(mapping_files, "a@x.com") = {"u1"}
    /\ result.email = "b@x.com"

\* the weekday of the requested date is disabled in the profile of the
\* resolved user
DisabledWeekday ==
    /\ user_id # "None"
    /\ ~get_user_profile(profile_files, user_id)["working_hours"][DayName(args.date)].enabled

\* C16: for a connected identity on a date whose weekday is disabled in the
\* profile, check_availability returns working_day = false, free_slots = []
\* and reason = 'Not a working day'
C16_DisabledWeekdayNotWorkingDay ==
    (CaDone /\ DisabledWeekday) =>
        /\ {"working_day", "free_slots", "reason"} \subseteq DOMAIN result
        /\ result.working_day = FALSE
        /\ result.free_slots = <<>>
        /\ result.reason = "Not a working day"

\* a Saturday with the default profile, for a user with a connected
\* calendar that is selected
C16_Witness ==
    /\ CaDone
    /\ user_id = "u1"
    /\ args.date = "2025-01-25"
    /\ ~profile_files["u1"].exists
    /\ "a@x.com" \in selection_files["u1"]
    /\ result.working_day = FALSE

\* the timed events of the calendars whose query succeeded, as
\* <<calendar, start, end, title>>
TimedEventsOfSuccessful ==
    UNION { { <<query_log[i].calendar, query_log[i].events[j].start.dateTime,
                query_log[i].events[j].end.dateTime, query_log[i].events[j].summary>> :
                j \in {k \in 1..Len(query_log[i].events) :
                          /\ "dateTime" \in DOMAIN query_log[i].events[k].start
                          /\ "dateTime" \in DOMAIN query_log[i].events[k].end} } :
            i \in {k \in 1..Len(query_log) : query_log[k].ok} }

SomeQueryFailed == \E i \in 1..Len(query_log) : ~query_log[i].ok
SomeQuerySucceeded == \E i \in 1..Len(query_log) : query_log[i].ok

\* C17: when the query of one self calendar fails and the others succeed,
\* check_availability returns success = true and its busy_times are exactly
\* the timed events of the calendars whose query succeeded
C17_FailedCalendarSkipped ==
    (CaDone /\ SomeQueryFailed /\ SomeQuerySucceeded) =>
        /\ result.success = TRUE
        /\ {<<result.busy_times[i].calendar, result.busy_times[i].start_utc,
              result.busy_times[i].end_utc, result.busy_times[i].title>> :
                i \in 1..Len(result.busy_times)} = TimedEventsOfSuccessful
        /\ Len(result.busy_times) = Cardinality(TimedEventsOfSuccessful)

\* the first calendar delivered a timed event, the second one failed
C17_Witness ==
    /\ CaDone
    /\ Len(query_log) = 2
    /\ query_log[1].ok /\ Len(query_log[1].events) = 1
    /\ ~query_log[2].ok
    /\ Len(result.busy_times) = 1
    /\ result.busy_times[1].calendar = query_log[1].calendar

\* C18: calendars_checked equals the number of calendars whose query
\* succeeded, and when every query failed the result is success-shaped with
\* calendars_checked = 0 and a warning field
C18_CalendarsCheckedCountsSuccesses ==
    (CaDone /\ query_log # <<>>) =>
        /\ result.success = TRUE
        /\ result.calendars_checked =
              Cardinality({i \in 1..Len(query_log) : query_log[i].ok})
        /\ ~SomeQuerySucceeded => "warning" \in DOMAIN result

\* the identity resolved, no selected calendar matches the email and the
\* calendar list has no primary calendar
NoUsableCalendar ==
    /\ user_id # "None"
    /\ {c \in get_user_selected_calendars(selection_files, user_id) :
            MatchesEmail(c, args.email)} = {}
    /\ FirstPrimary(api_calendars) = "None"

\* C19 as stated: when the identity resolves but no usable calendar exists,
\* check_availability returns success = false
C19_NoCalendarFailsCheck ==
    (CaDone /\ NoUsableCalendar) => result.success = FALSE

\* C19 amended: when the identity resolves, the date is a working day of
\* the user and no usable calendar exists, check_availability returns
\* success = false; on a date that is not a working day it answers before
\* looking at calendars; in both cases the result has no free slot
C19_NoCalendarNeverOpen ==
    (CaDone /\ NoUsableCalendar) =>
        /\ Get(availability, "available", FALSE) => result.success = FALSE
        /\ result.free_slots = <<>>

\* a working day, the calendar list was fetched and has only a calendar
\* that is neither selected nor primary
C19_Witness ==
    /\ CaDone
    /\ NoUsableCalendar
    /\ availability.available
    /\ all_calendars # "None"
    /\ all_calendars # <<>>
    /\ result.success = FALSE
    /\ result.error[1] = "No calendars available for email "

\* the auto-selection of connect_user_calendar: the primary calendar, else
\* the first calendar with accessRole 'owner', else nothing
RECURSIVE FirstOwner(_)
FirstOwner(cals) ==
    IF cals = <<>> THEN "None"
    ELSE IF Get(cals[1], "accessRole", "None") = "owner" THEN cals[1].id
    ELSE FirstOwner(Tail(cals))

PriorityFallback(cals) ==
    IF FirstPrimary(cals) # "None" THEN <<FirstPrimary(cals)>>
    ELSE IF FirstOwner(cals) # "None" THEN <<FirstOwner(cals)>>
    ELSE <<>>

\* C20: when no selected calendar matches the email, the calendars used for
\* the check are the primary calendar, else the first calendar with
\* owner-level access, else none
C20_FallbackPriority ==
    (CaDone /\ all_calendars # "None") =>
        self_calendar_ids = PriorityFallback(all_calendars)

\* C23: a call of check_availability, with the identity resolution it
\* performs, leaves the stored profile, email mapping and calendar selection
\* of every user unchanged
C23_CheckOnlyReads ==
    [][UNCHANGED <<profile_files, mapping_files, selection_files>>]_vars

\* the timezone the precedence list of the display timezone yields
PrecedenceTimezone ==
    IF args.display_timezone # "None" THEN args.display_timezone
    ELSE IF args.primary_timezone # "None" THEN args.primary_timezone
    ELSE IF user_id # "None" THEN get_user_timezone(profile_files, user_id)
    ELSE "UTC"

\* C25: the display timezone of the result is the explicit argument, else
\* the primary user's timezone of the context, else the checked user's own
\* configured timezone, else UTC
C25_DisplayTimezonePrecedence ==
    CaDone => result.display_timezone = PrecedenceTimezone

\* C30: no email is in the owned_emails of two different users
C30_EmailHasOneOwner ==
    \A e \in Emails : Cardinality(Owners(mapping_files, e)) <= 1

\* C21: every outcome of check_availability is a response object with a
\* success flag and a message or reason field
C21_StructuredResponse ==
    CaDone =>
        /\ "success" \in DOMAIN result
        /\ "message" \in DOMAIN result \/ "reason" \in DOMAIN result

\* get_user_availability_for_date has returned for the resolved user
AvailabilityKnown == "available" \in DOMAIN availability

\* the ISO string s reads the given date at the time of day hm on the wall
\* clock of the zone
ReadsLocalTime(s, zone, date, hm) ==
    /\ s.kind = "offset"
    /\ s.wall = DateWall(date) + ClockSeconds(hm)
    /\ s.off = UtcOffset(zone, s.wall - s.off)

C22_SlowQueryDoesNotBlock == <>CaDone

\* inputs of _find_free_slots with zero and negative durations as well
TermInputs ==
    [ws : Times, we : Times, dur : (-MaxDur)..MaxDur, maxs : Suggestions,
     busy : BusyLists]

TermInit ==
    \E inp \in TermInputs :
        /\ pc = "call"
        /\ start_dt = inp.ws
        /\ end_dt = inp.we
        /\ duration_minutes = inp.dur
        /\ max_suggestions = inp.maxs
        /\ busy_times = inp.busy
        /\ busy_idx = 0
        /\ current_time = 0
        /\ free_slots = <<>>

\* C29: _find_free_slots returns on every input, also for a duration <= 0,
\* a window that ends before it starts and unsorted or overlapping busy
\* intervals, and never holds more than max_suggestions slots
C29_SynthesizerTerminates ==
    /\ <>Returned
    /\ [](NumSlots <= Max(0, max_suggestions))

\* a negative duration in a window that ends before it starts: the loop
\* before a busy period emitted max_suggestions slots and the call returned
C29_Witness ==
    /\ Returned
    /\ duration_minutes < 0
    /\ end_dt < start_dt
    /\ NumBusy >= 1
    /\ max_suggestions >= 2
    /\ NumSlots = max_suggestions

(***************************************************************************)
(* Conversation memory (memory/conversation.py).  The messages table is a  *)
(* sequence of rows in rowid order; the timestamp column of a row is       *)
(* CURRENT_TIMESTAMP, the database clock in whole seconds.                 *)
(***************************************************************************)
Conversations == {"c1", "c2"}
Contents == {"hi"}
MaxMessages == 4
MaxClock == 2
Limits == 0..(MaxMessages + 1)
\* ConversationManager(message_limit=10)
message_limit == 10

ConvIdle ==
    /\ messages = <<>>
    /\ db_clock = 0
    /\ conv_ret = [op |-> "none"]

ConvInit == ConvIdle

convFrame == <<synthVars, tzVars, profVars, mailVars, availVars, graphVars,
               raceVars>>

\* the clock of the database reaches the next second
ClockTick ==
    /\ db_clock < MaxClock
    /\ db_clock' = db_clock + 1
    /\ UNCHANGED <<messages, conv_ret>>
    /\ UNCHANGED convFrame

\* add_message: INSERT INTO messages; id is the AUTOINCREMENT rowid and
\* timestamp the column default
AddMessage(c, text) ==
    /\ Len(messages) < MaxMessages
    /\ messages' = Append(messages,
                          [id |-> Len(messages) + 1, conversation_id |-> c,
                           content |-> text, timestamp |-> db_clock])
    /\ conv_ret' = [op |-> "add_message", ok |-> TRUE]
    /\ UNCHANGED db_clock
    /\ UNCHANGED convFrame

\* order of two rows of one conversation when ORDER BY timestamp is done by
\* a sorter: rows of one second come out of a descending sort in table order
SorterLess(a, b) ==
    \/ a.timestamp < b.timestamp
    \/ a.timestamp = b.timestamp /\ a.id > b.id
\* order of two entries of idx_messages_conversation_timestamp, the index
\* on (conversation_id, timestamp) the query is answered from: entries of
\* one conversation are ordered by timestamp, then by rowid
IndexLess(a, b) ==
    \/ a.timestamp < b.timestamp
    \/ a.timestamp = b.timestamp /\ a.id < b.id

\* WHERE conversation_id = ?
RowsOf(c) == {messages[i] : i \in {j \in 1..Len(messages) :
                                      messages[j].conversation_id = c}}

\* ORDER BY timestamp DESC: the index is walked backwards
RECURSIVE ScanDesc(_)
ScanDesc(rows) ==
    IF rows = {} THEN <<>>
    ELSE LET last == CHOOSE r \in rows :
                        \A q \in rows : q = r \/ IndexLess(q, r)
         IN  <<last>> \o ScanDesc(rows \ {last})

\* LIMIT ?: a negative limit is no limit
SqlLimit(rows, limit) ==
    IF limit < 0 \/ limit >= Len(rows) THEN rows ELSE SubSeq(rows, 1, limit)

\* reversed(cursor.fetchall())
Reversed(seq) == [i \in 1..Len(seq) |-> seq[Len(seq) + 1 - i]]

\* the message dict built from a row
MessageOf(row) ==
    [id |-> row.id, content |-> row.content, timestamp |-> row.timestamp]

\* get_conversation_history
get_conversation_history(c, limit) ==
    LET fetched == Reversed(SqlLimit(ScanDesc(RowsOf(c)), limit))
    IN  [i \in 1..Len(fetched) |-> MessageOf(fetched[i])]

\* a call of get_conversation_history, with a limit or with limit=None
GetConversationHistory ==
    /\ \E c \in Conversations, given \in BOOLEAN, l \in Limits :
          LET limit == IF given THEN l ELSE message_limit
          IN  conv_ret' = [op |-> "get_conversation_history",
                           conversation_id |-> c, limit |-> limit,
                           messages |-> get_conversation_history(c, limit)]
    /\ UNCHANGED <<messages, db_clock>>
    /\ UNCHANGED convFrame

HistoryReturned == conv_ret.op = "get_conversation_history"

\* the messages added to a conversation, in the order of the add_message calls
AddedTo(c) ==
    LET rows == SelectSeq(messages, LAMBDA r : r.conversation_id = c)
    IN  [i \in 1..Len(rows) |-> MessageOf(rows[i])]

\* the last k elements of a sequence
LastOf(seq, k) == SubSeq(seq, Len(seq) - k + 1, Len(seq))

\* C28: get_conversation_history(c, limit) returns the last min(limit, n) of
\* the n messages added to c, in the order in which they were added, also
\* when several of them were added within one second
C28_HistoryIsLastMessagesInOrder ==
    HistoryReturned =>
        LET added == AddedTo(conv_ret.conversation_id)
        IN  conv_ret.messages = LastOf(added, Min(conv_ret.limit, Len(added)))

\* a history cut by the limit whose messages were added in the same second,
\* with a message of the other conversation added between them
C28_Witness ==
    /\ HistoryReturned
    /\ Len(conv_ret.messages) = 2
    /\ conv_ret.limit < Len(AddedTo(conv_ret.conversation_id))
    /\ conv_ret.messages[1].timestamp = conv_ret.messages[2].timestamp
    /\ conv_ret.messages[2].id > conv_ret.messages[1].id + 1

(***************************************************************************)
(* The agent graph (agent/graph.py, agent/nodes.py): START -> plan -> act, *)
(* act -> act | reflect, reflect -> END | act.  Of the EvaState only the   *)
(* fields the routing reads are kept.  What the LLM returns is an input of *)
(* each node.  A plan step is a JSON object known by its action:           *)
(* respond_directly (any action with a handler behaves alike) or an        *)
(* action without a handler.                                               *)
(***************************************************************************)
StepKinds == {"respond_directly", "unknown_action"}
MaxPlan == 4
Plans == UNION {[1..n -> StepKinds] : n \in 0..MaxPlan}

\* create_eva_state
InitialEvaState ==
    [eva_plan |-> <<>>, current_step |-> 0, needs_confirmation |-> FALSE,
     response_ready |-> FALSE]

GraphIdle ==
    /\ node = "idle"
    /\ eva_state = InitialEvaState

\* process_message: the graph starts at the edge START -> plan
GraphInit ==
    /\ node = "plan"
    /\ eva_state = InitialEvaState

graphFrame == <<synthVars, tzVars, profVars, mailVars, availVars, convVars,
                raceVars>>

\* plan_node with the plan of the LLM; an unparsable answer or an exception
\* gives the one-step fallback plan.  The edge plan -> act follows.
PlanNode ==
    /\ node = "plan"
    /\ \E plan \in Plans, confirm \in BOOLEAN :
          eva_state' = [eva_state EXCEPT
                           !.eva_plan = plan,
                           !.current_step = 0,
                           !.needs_confirmation = confirm \/ @]
    /\ node' = "act"
    /\ UNCHANGED graphFrame

\* _should_continue_acting
should_continue_acting(state) ==
    IF state.current_step < Len(state.eva_plan) THEN "act" ELSE "reflect"

\* act_node: nothing to do once the plan is exhausted; otherwise the step,
\* handled, unknown or failed, moves current_step on.  Then the
\* conditional edge.
ActNode ==
    /\ node = "act"
    /\ IF eva_state.current_step >= Len(eva_state.eva_plan)
       THEN /\ UNCHANGED eva_state
            /\ node' = should_continue_acting(eva_state)
       ELSE LET after == [eva_state EXCEPT !.current_step = @ + 1]
            IN  /\ eva_state' = after
                /\ node' = should_continue_acting(after)
    /\ UNCHANGED graphFrame

\* _should_end
should_end(state) ==
    IF state.response_ready THEN "END"
    ELSE IF state.needs_confirmation THEN "END"
    ELSE "act"

\* reflect_node with the reflection of the LLM: confirm is its
\* needs_confirmation, final whether it carries a final_response (the
\* fallbacks for an unparsable answer and for an exception carry one).
\* Then the conditional edge.
ReflectNode ==
    /\ node = "reflect"
    /\ \E confirm \in BOOLEAN, final \in BOOLEAN :
          LET after == [eva_state EXCEPT
                           !.needs_confirmation = confirm \/ @,
                           !.response_ready = final \/ @]
          IN  /\ eva_state' = after
              /\ node' = should_end(after)
    /\ UNCHANGED graphFrame

\* C27: the graph reaches END for one message, whatever plan and
\* reflections the LLM returns
C27_GraphReachesEnd == <>(node = "END")

(***************************************************************************)
(* Two writers of one profile file: set_user_timezone and                  *)
(* set_user_working_hours called for the same user from two threads or     *)
(* processes (the server and scripts/manage_user_timezone.py share the     *)
(* data directory).  Each call loads the record, opens the file with mode  *)
(* 'w', which truncates it, and dumps its dict when the with block closes  *)
(* the file; nothing in the code locks the file or replaces it atomically, *)
(* so the steps of the two calls interleave.  A file is its sequence of    *)
(* lines: "{", one line <<key, value>> per key of the dict, "}".           *)
(***************************************************************************)
Writers == {"set_user_timezone", "set_user_working_hours"}
RaceUser == "u1"
RaceZones == {"Asia/Kolkata", "America/New_York"}
CustomHours == [d \in Days |-> CustomDay]
RaceHours == {DefaultWorkingHours, CustomHours}

OpenBrace == <<"{", "">>
CloseBrace == <<"}", "">>
\* the keys in the order json.dump writes them
KeyOrder == <<"user_id", "first_name", "last_name", "display_name", "email",
              "timezone", "working_hours">>

\* json.dump(d, f, indent=2)
Serialize(d) ==
    LET keys == SelectSeq(KeyOrder, LAMBDA k : k \in DOMAIN d)
    IN  <<OpenBrace>> \o [i \in 1..Len(keys) |-> <<keys[i], d[keys[i]]>>]
                      \o <<CloseBrace>>

\* json.load succeeds on one whole object and on nothing else
IsJson(lines) ==
    /\ Len(lines) >= 2
    /\ lines[1][1] = "{"
    /\ lines[Len(lines)][1] = "}"
    /\ \A i \in 2..(Len(lines) - 1) : lines[i][1] \notin {"{", "}"}
\* json.load
JsonLoad(lines) ==
    LET at(k) == CHOOSE i \in 2..(Len(lines) - 1) : lines[i][1] = k
    IN  [k \in {lines[i][1] : i \in 2..(Len(lines) - 1)} |-> lines[at(k)][2]]

\* the profile file as the profile store sees it; a file that does not
\* parse is handled like a missing one by get_user_profile (the except
\* returns default_profile) and like {} by set_user_timezone
AsStored(file) ==
    IF file.exists /\ IsJson(file.lines) THEN FileWith(JsonLoad(file.lines))
    ELSE NoFile

\* f.write at the start of the file opened by this writer: the bytes of the
\* dump replace the bytes at the same offsets, what lies behind them stays
WriteAtStart(old, new) ==
    IF Len(new) >= Len(old) THEN new
    ELSE new \o SubSeq(old, Len(new) + 1, Len(old))

NoLines == [exists |-> FALSE, lines |-> <<>>]
LinesOf(d) == [exists |-> TRUE, lines |-> Serialize(d)]

RaceIdle ==
    /\ disk = NoLines
    /\ w_pc = [w \in Writers |-> "idle"]
    /\ w_data = [w \in Writers |-> NoDict]
    /\ saved = <<>>

\* the file before the two calls: missing, written by set_user_timezone
\* alone, or a whole profile
RaceInit ==
    /\ disk \in {NoLines,
                 LinesOf([user_id |-> RaceUser, timezone |-> "UTC"]),
                 LinesOf(DefaultProfile(RaceUser))}
    /\ w_pc = [w \in Writers |-> "called"]
    /\ w_data = [w \in Writers |-> NoDict]
    /\ saved = <<>>

raceFrame == <<synthVars, tzVars, profVars, mailVars, availVars, convVars,
               graphVars>>

\* set_user_timezone, lines 1317-1333: load the stored object or {} and
\* update user_id and timezone
TzLoad ==
    /\ w_pc["set_user_timezone"] = "called"
    /\ \E zone \in RaceZones :
          LET stored == AsStored(disk)
              old == IF stored.exists THEN stored.data ELSE [k \in {} |-> 0]
          IN  w_data' = [w_data EXCEPT !["set_user_timezone"] =
                  MergeDicts(old, [user_id |-> RaceUser, timezone |-> zone])]
    /\ w_pc' = [w_pc EXCEPT !["set_user_timezone"] = "loaded"]
    /\ UNCHANGED <<disk, saved>>
    /\ UNCHANGED raceFrame

\* set_user_working_hours, lines 1437-1439: get_user_profile and replace
\* working_hours
WhLoad ==
    /\ w_pc["set_user_working_hours"] = "called"
    /\ \E hours \in RaceHours :
          LET profile == get_user_profile(
                             [u \in Users |-> AsStored(disk)], RaceUser)
          IN  w_data' = [w_data EXCEPT !["set_user_working_hours"] =
                  SetKey(profile, "working_hours", hours)]
    /\ w_pc' = [w_pc EXCEPT !["set_user_working_hours"] = "loaded"]
    /\ UNCHANGED <<disk, saved>>
    /\ UNCHANGED raceFrame

\* open(profile_file, 'w'): the file is created or cut to length 0
WriterOpen(w) ==
    /\ w_pc[w] = "loaded"
    /\ disk' = [exists |-> TRUE, lines |-> <<>>]
    /\ w_pc' = [w_pc EXCEPT ![w] = "opened"]
    /\ UNCHANGED <<w_data, saved>>
    /\ UNCHANGED raceFrame

\* json.dump and the end of the with block: the buffered dump is written
\* at the start of the file, the call returns True
WriterDump(w) ==
    /\ w_pc[w] = "opened"
    /\ disk' = [exists |-> TRUE,
                lines |-> WriteAtStart(disk.lines, Serialize(w_data[w]))]
    /\ saved' = Append(saved, w)
    /\ w_pc' = [w_pc EXCEPT ![w] = "returned"]
    /\ UNCHANGED w_data
    /\ UNCHANGED raceFrame

BothReturned == \A w \in Writers : w_pc[w] = "returned"

\* C26: after both calls have returned the file holds exactly the record
\* dumped by the call that saved last, not a mixture and not a part of it
C26_LastWriterWins ==
    BothReturned => disk = LinesOf(w_data[saved[Len(saved)]])

SideIdle == ConvIdle /\ GraphIdle /\ RaceIdle

Init ==
    SynthInit /\ TzIdle /\ ProfileIdle /\ MailIdle /\ AvailIdle /\ SideIdle

Next ==
    \/ SortBusy
    \/ ForNext
    \/ EmitBefore
    \/ ExitWhile
    \/ BreakFor
    \/ SkipBusy
    \/ EmitFinal
    \/ ReturnSlots

Spec == Init /\ [][Next]_vars

\* the synthesizer on every input; the interpreter always executes the
\* next statement
TermSpecInit ==
    TermInit /\ TzIdle /\ ProfileIdle /\ MailIdle /\ AvailIdle /\ SideIdle

TermSpec == TermSpecInit /\ [][Next]_vars /\ WF_synthVars(Next)

TzSpecInit ==
    TzInit /\ SynthIdle /\ ProfileIdle /\ MailIdle /\ AvailIdle /\ SideIdle

TzNext ==
    \/ ToUserTimezone
    \/ FromUserTimezone

TzSpec == TzSpecInit /\ [][TzNext]_vars

ProfileSpecInit ==
    ProfileInit /\ SynthIdle /\ TzIdle /\ MailIdle /\ AvailIdle /\ SideIdle

ProfileNext ==
    \/ \E u \in Users, zone \in ZoneNames : SetUserTimezone(u, zone)
    \/ \E u \in Users, hours \in HoursInputs : SetUserWorkingHours(u, hours)
    \/ \E u \in Users, field \in NameFields, v \in NameInputs :
          SetUserName(u, field, v)

ProfileSpec == ProfileSpecInit /\ [][ProfileNext]_vars

MailSpecInit ==
    MailInit /\ SynthIdle /\ TzIdle /\ ProfileIdle /\ AvailIdle /\ SideIdle

MailNext ==
    \/ \E u \in MailUsers, e \in Emails : AddEmailToUser(u, e)
    \/ \E u \in MailUsers, e \in Emails : RemoveEmailFromUser(u, e)
    \/ \E u \in MailUsers, e \in Emails : SetPrimaryEmailForUser(u, e)
    \/ \E e \in Emails : FindUserIdForEmail(e)

MailSpec == MailSpecInit /\ [][MailNext]_vars

AvailSpecInit ==
    AvailInit /\ SynthIdle /\ TzIdle /\ SideIdle

AvailNext ==
    \/ CaResolve
    \/ CaAvailability
    \/ CaService
    \/ CaSelfCalendars
    \/ CaCalendarList
    \/ CaQuery
    \/ CaFinish

AvailSpec == AvailSpecInit /\ [][AvailNext]_vars

\* the same call with requests that may never complete; every step the
\* code can take is eventually taken
AvailLiveNext ==
    \/ AvailNext
    \/ CaQueryNeverReturns

\* positions of run_with_context
CaPositions ==
    {"call", "availability", "service", "self_calendars", "calendar_list",
     "query", "awaiting", "done"}

\* the call moves on: it is neither returned nor waiting for a request,
\* and its position or its loop index changes (every step of the call
\* does that)
CaMovesOn ==
    /\ ca_pc \notin {"idle", "awaiting", "done"}
    /\ ca_pc' \in CaPositions
    /\ cal_idx' \in {cal_idx, cal_idx + 1, 1}

\* the event loop runs the coroutine whenever it is not waiting
AvailLiveSpec ==
    AvailSpecInit /\ [][AvailLiveNext]_vars /\ WF_<<ca_pc, cal_idx>>(CaMovesOn)

ConvSpecInit ==
    ConvInit /\ SynthIdle /\ TzIdle /\ ProfileIdle /\ MailIdle /\ AvailIdle
             /\ GraphIdle /\ RaceIdle

ConvNext ==
    \/ ClockTick
    \/ \E c \in Conversations, text \in Contents : AddMessage(c, text)
    \/ GetConversationHistory

ConvSpec == ConvSpecInit /\ [][ConvNext]_vars

GraphSpecInit ==
    GraphInit /\ SynthIdle /\ TzIdle /\ ProfileIdle /\ MailIdle /\ AvailIdle
              /\ ConvIdle /\ RaceIdle

GraphNext ==
    \/ PlanNode
    \/ ActNode
    \/ ReflectNode

\* the graph runtime runs the next node whenever there is one
GraphSpec == GraphSpecInit /\ [][GraphNext]_vars /\ WF_graphVars(GraphNext)

RaceSpecInit ==
    RaceInit /\ SynthIdle /\ TzIdle /\ ProfileIdle /\ MailIdle /\ AvailIdle
             /\ ConvIdle /\ GraphIdle

RaceNext ==
    \/ TzLoad
    \/ WhLoad
    \/ \E w \in Writers : WriterOpen(w)
    \/ \E w \in Writers : WriterDump(w)

RaceSpec == RaceSpecInit /\ [][RaceNext]_vars

====
